---- MODULE Spec2Model ----
(***************************************************************************)
(* A model of llm-bridge: the Anthropic-style proxy endpoint               *)
(* (app/api/v1/endpoints/anthropic_proxy.py), its request normaliser, its  *)
(* streaming translator, and the OpenAI-compatible adapter's chunk         *)
(* generator (app/adapters/openai_compatible.py), the chat completions     *)
(* endpoint (app/api/v1/endpoints/chat.py) and the dispatcher              *)
(* (app/services/model_manager.py).                                        *)
(*                                                                         *)
(* Specifications:                                                         *)
(*   Spec         one streaming response: the backend sends byte chunks,   *)
(*                the adapter generator hands them on, the translator      *)
(*                re-frames them as Anthropic events, the client pulls.    *)
(*   SpecExtract  _extract_text_from_anthropic_content on one content.     *)
(*   SpecNorm     _transform_anthropic_to_standard on one request, and the *)
(*                body the adapter posts for it.                           *)
(*   SpecFlow     requests served concurrently by the two endpoints:       *)
(*                normalisation, get_adapter, the call of the backend, the *)
(*                response.                                                *)
(*   SpecCache    get_adapter and its lru_cache, called again and again.   *)
(*   SpecRelease  Spec with a client that may disconnect, and the          *)
(*                finalization of the generators.                          *)
(*   SpecEnvelope the non-streaming translation on one backend payload.    *)
(*   SpecPair     two streaming responses served concurrently.             *)
(*   SpecAdapter  chat_completions on a streaming request: its HTTP client *)
(*                and the generator it returns.                            *)
(*   SpecBedrock  requests served by bedrock_proxy (proxy.py).             *)
(***************************************************************************)
EXTENDS Integers, Sequences, FiniteSets, TLC

VARIABLES
    upstream,   \* the byte chunks the backend has sent on the response, in order
    upEnd,      \* how the response body ended: "open", "eof", "read_error", "error"
    pos,        \* number of chunks the adapter generator has handed to the translator
    agen,       \* _stream_response_generator: "created", "suspended", "finished"
    respClosed, \* response.aclose() has run
    tpc,        \* _full_response_translator: where the generator is
    demand,     \* the client (StreamingResponse) has a pull of the translator pending
    events,     \* the events the translator has yielded, in order
    xin,        \* SpecExtract: the content handed to _extract_text_from_anthropic_content
    xout,       \* SpecExtract: its result
    xpc,        \* SpecExtract: "call" before the call, "ret" after
    req,        \* SpecNorm: the inbound AnthropicChatRequest
    envOverride,\* SpecNorm: os.getenv("DEFAULT_MODEL_OVERRIDE"), "" when unset
    std,        \* SpecNorm: the StandardizedChatRequest returned
    npc,        \* SpecNorm: "call" before the call, "ret" after, "sent" once posted
    payload,    \* SpecNorm: the JSON body chat_completions posts to the backend
    handlers,   \* SpecFlow: the requests being served, one record each
    cache,      \* the cache lru_cache keeps for get_adapter
    constructed,\* the number of adapters constructed so far
    returned,   \* SpecCache: the [key, handle] pairs get_adapter has returned
    lastCall,   \* SpecCache: the last call of get_adapter and whether it hit
    client,     \* the HTTP client of the streaming response: "connected", "gone"
    collected,  \* the generators of the response have been finalized
    envIn,      \* SpecEnvelope: the backend's JSON handed to the translation
    envOut,     \* SpecEnvelope: the envelope built from it
    envPc,      \* SpecEnvelope: "call" before the translation, "ret" after
    streams,    \* SpecPair: the streaming responses in progress, one record each
    apc,        \* SpecAdapter: where chat_completions is
    httpClient  \* SpecAdapter: its httpx.AsyncClient: "none", "open", "closed"

streamVars == <<upstream, upEnd, pos, agen, respClosed, tpc, demand, events>>
extractVars == <<xin, xout, xpc>>
normVars == <<req, envOverride, std, npc, payload>>
dispVars == <<cache, constructed, returned, lastCall>>
flowVars == <<handlers, dispVars>>
releaseVars == <<client, collected>>
envelopeVars == <<envIn, envOut, envPc>>
pairVars == <<streams>>
adapterVars == <<apc, httpClient>>
vars == <<streamVars, extractVars, normVars, flowVars, releaseVars, envelopeVars,
          pairVars, adapterVars>>
\* what a step of one part leaves alone
notStream ==
    <<extractVars, normVars, flowVars, releaseVars, envelopeVars, pairVars, adapterVars>>
notExtract ==
    <<streamVars, normVars, flowVars, releaseVars, envelopeVars, pairVars, adapterVars>>
notNorm ==
    <<streamVars, extractVars, flowVars, releaseVars, envelopeVars, pairVars, adapterVars>>
notFlow ==
    <<streamVars, extractVars, normVars, releaseVars, envelopeVars, pairVars, adapterVars>>
notResponse ==
    <<extractVars, normVars, flowVars, envelopeVars, pairVars, adapterVars>>
notEnvelope ==
    <<streamVars, extractVars, normVars, flowVars, releaseVars, pairVars, adapterVars>>
notPair ==
    <<streamVars, extractVars, normVars, flowVars, releaseVars, envelopeVars, adapterVars>>
notTransport ==
    <<extractVars, normVars, flowVars, releaseVars, envelopeVars, pairVars>>

(***************************************************************************)
(* Bounds of the model.                                                    *)
(***************************************************************************)
MaxChunks == 3
MaxBlocks == 2
MaxMsgs == 2
MaxHandlers == 2
MaxPairChunks == 2
Handlers == 1..MaxHandlers

(***************************************************************************)
(* Upstream chunks.  A chunk is the bytes one iteration of                 *)
(* response.aiter_bytes() yields, described by what the translator's       *)
(* parsing can tell apart:                                                 *)
(*   line     "badutf8" bytes that are not UTF-8; "blank" empty after      *)
(*            strip(); "done" the text `data: [DONE]`; "data" anything else*)
(*   json     what json.loads makes of the text after the first six        *)
(*            characters: "invalid" (it raises JSONDecodeError), "other"   *)
(*            (a value that is not an object), "object"                    *)
(*   choices  the object's "choices": "absent", "empty" ([]), "list"       *)
(*   delta    choices[0]'s "delta": "absent", "null", "object"             *)
(*   content  delta's "content": "absent" or "str", with its text          *)
(*   tool     delta's "tool_calls": "none", or one fragment of tool call   *)
(*            tidx: "first" (carries the function name) or "more"          *)
(***************************************************************************)
Chunk(line, json, choices, delta, content, text, tool, tidx) ==
    [line |-> line, json |-> json, choices |-> choices, delta |-> delta,
     content |-> content, text |-> text, tool |-> tool, tidx |-> tidx]

BadUtf8Chunk == Chunk("badutf8", "invalid", "absent", "absent", "absent", "", "none", 0)
BlankChunk == Chunk("blank", "invalid", "absent", "absent", "absent", "", "none", 0)
DoneChunk == Chunk("done", "invalid", "absent", "absent", "absent", "", "none", 0)
BadJsonChunk == Chunk("data", "invalid", "absent", "absent", "absent", "", "none", 0)
NonObjectChunk == Chunk("data", "other", "absent", "absent", "absent", "", "none", 0)
NoChoicesChunk == Chunk("data", "object", "absent", "absent", "absent", "", "none", 0)
EmptyChoicesChunk == Chunk("data", "object", "empty", "absent", "absent", "", "none", 0)
NullDeltaChunk == Chunk("data", "object", "list", "null", "absent", "", "none", 0)
FinishChunk == Chunk("data", "object", "list", "object", "absent", "", "none", 0)
TextChunk(t) == Chunk("data", "object", "list", "object", "str", t, "none", 0)
ToolChunk(frag, i) == Chunk("data", "object", "list", "object", "absent", "", frag, i)

DeltaTexts == {"He", "llo", "X"}

Chunks ==
    {BadUtf8Chunk, BlankChunk, DoneChunk, BadJsonChunk, NonObjectChunk,
     NoChoicesChunk, EmptyChoicesChunk, NullDeltaChunk, FinishChunk,
     TextChunk(""), ToolChunk("first", 0), ToolChunk("more", 0)}
    \cup {TextChunk(t) : t \in DeltaTexts}

(***************************************************************************)
(* Outbound events (the SSE frames the translator yields).  The response   *)
(* id of message_start is a fresh uuid and is left out.                    *)
(***************************************************************************)
Event(type, index, text) == [type |-> type, index |-> index, text |-> text]
MessageStart == Event("message_start", 0, "")
MessageStop == Event("message_stop", 0, "")
ContentBlockDelta(t) == Event("content_block_delta", 0, t)

(***************************************************************************)
(* The body of the translator's loop for one chunk (lines 102-118): what   *)
(* it does with the chunk.  "skip": continue with the next chunk;          *)
(* "yield": yield ev; "raise": an exception leaves the generator.          *)
(***************************************************************************)
Skip == [outcome |-> "skip", ev |-> MessageStop]
Raise == [outcome |-> "raise", ev |-> MessageStop]
Yield(e) == [outcome |-> "yield", ev |-> e]

\* delta.get("content") of a chunk whose payload parsed and has the shape
\* the chained .get calls accept; "" stands for None and for the empty text
DeltaContent(c) ==
    IF c.choices = "list" /\ c.delta = "object" /\ c.content = "str"
    THEN c.text
    ELSE ""

\* ProcessChunk with the sentinel answered by message_stop, the loop going on
ProcessChunk_StopWithoutBreak(c) ==
    IF c.line = "badutf8" THEN Raise
    ELSE IF c.line = "blank" THEN Skip
    ELSE IF c.line = "done" THEN Yield(MessageStop)
    ELSE IF c.json = "invalid" THEN Skip
    ELSE IF c.json = "other" THEN Raise
    ELSE IF c.choices = "empty" THEN Raise
    ELSE IF c.choices = "list" /\ c.delta = "null" THEN Raise
    ELSE IF DeltaContent(c) # "" THEN Yield(ContentBlockDelta(DeltaContent(c)))
    ELSE Skip

\* ProcessChunk without the except clause: JSONDecodeError leaves the generator
ProcessChunk_NoExcept(c) ==
    IF c.line = "badutf8" THEN Raise
    ELSE IF c.line \in {"blank", "done"} THEN Skip
    ELSE IF c.json = "invalid" THEN Raise
    ELSE IF c.json = "other" THEN Raise
    ELSE IF c.choices = "empty" THEN Raise
    ELSE IF c.choices = "list" /\ c.delta = "null" THEN Raise
    ELSE IF DeltaContent(c) # "" THEN Yield(ContentBlockDelta(DeltaContent(c)))
    ELSE Skip

ProcessChunk(c) ==
    IF c.line = "badutf8" THEN Raise            \* chunk.decode: UnicodeDecodeError
    ELSE IF c.line \in {"blank", "done"} THEN Skip  \* not chunk_str or the sentinel
    ELSE IF c.json = "invalid" THEN Skip        \* except json.JSONDecodeError
    ELSE IF c.json = "other" THEN Raise         \* data.get: AttributeError
    ELSE IF c.choices = "empty" THEN Raise      \* [][0]: IndexError
    ELSE IF c.choices = "list" /\ c.delta = "null" THEN Raise \* None.get
    ELSE IF DeltaContent(c) # "" THEN Yield(ContentBlockDelta(DeltaContent(c)))
    ELSE Skip

(***************************************************************************)
(* _stream_response_generator at the end of the response body: "stop" when *)
(* the generator ends normally (the translator's async for ends), "raise"  *)
(* when an exception leaves it.  A read error and any other Exception are  *)
(* caught and logged.                                                      *)
(***************************************************************************)
StreamGeneratorEnd(cause) ==
    CASE cause = "eof" -> "stop"
      [] cause = "read_error" -> "stop"
      [] cause = "error" -> "stop"

(***************************************************************************)
(* The backend and the transport.                                          *)
(***************************************************************************)
BackendSend(c) ==
    /\ upEnd = "open"
    /\ Len(upstream) < MaxChunks
    /\ upstream' = Append(upstream, c)
    /\ UNCHANGED <<upEnd, pos, agen, respClosed, tpc, demand, events>>
    /\ UNCHANGED notStream

BackendEnd(cause) ==
    /\ upEnd = "open"
    /\ upEnd' = cause
    /\ UNCHANGED <<upstream, pos, agen, respClosed, tpc, demand, events>>
    /\ UNCHANGED notStream

(***************************************************************************)
(* The client: Starlette's StreamingResponse iterating the translator.     *)
(***************************************************************************)
ClientPull ==
    /\ client = "connected"
    /\ ~demand
    /\ tpc \in {"not_started", "streaming", "stop_yielded"}
    /\ demand' = TRUE
    /\ UNCHANGED <<upstream, upEnd, pos, agen, respClosed, tpc, events>>
    /\ UNCHANGED notStream

(***************************************************************************)
(* The translator, one action per stretch between two suspensions.         *)
(***************************************************************************)
\* lines 86-98: the first pull yields message_start
TranslatorStart ==
    /\ demand
    /\ tpc = "not_started"
    /\ events' = Append(events, MessageStart)
    /\ tpc' = "streaming"
    /\ demand' = FALSE
    /\ UNCHANGED <<upstream, upEnd, pos, agen, respClosed>>
    /\ UNCHANGED notStream

\* a translator that reads the next chunk whether or not a pull is pending
TranslatorChunk_ReadAhead ==
    /\ tpc = "streaming"
    /\ agen # "finished"
    /\ pos < Len(upstream)
    /\ LET r == ProcessChunk(upstream[pos + 1]) IN
        /\ pos' = pos + 1
        /\ agen' = "suspended"
        /\ events' = IF r.outcome = "yield" THEN Append(events, r.ev) ELSE events
        /\ tpc' = IF r.outcome = "raise" THEN "aborted" ELSE tpc
        /\ demand' = (demand /\ r.outcome = "skip")
    /\ UNCHANGED <<upstream, upEnd, respClosed>>
    /\ UNCHANGED notStream

\* lines 100-118: one iteration of the loop on the next chunk of the adapter
\* generator (openai_compatible.py lines 28-29).  For a streaming request the
\* adapter returns that generator, so the isinstance test of line 100 holds.
TranslatorChunk ==
    /\ demand
    /\ tpc = "streaming"
    /\ agen # "finished"
    /\ pos < Len(upstream)
    /\ LET r == ProcessChunk(upstream[pos + 1]) IN
        /\ pos' = pos + 1
        /\ agen' = "suspended"
        /\ events' = IF r.outcome = "yield" THEN Append(events, r.ev) ELSE events
        /\ tpc' = IF r.outcome = "raise" THEN "aborted" ELSE tpc
        /\ demand' = (r.outcome = "skip")
    /\ UNCHANGED <<upstream, upEnd, respClosed>>
    /\ UNCHANGED notStream

\* the response body is over: the adapter generator ends (lines 30-38 of
\* openai_compatible.py), the loop ends and message_stop is yielded (120-121)
TranslatorUpstreamEnd ==
    /\ demand
    /\ tpc = "streaming"
    /\ agen # "finished"
    /\ pos = Len(upstream)
    /\ upEnd # "open"
    /\ agen' = "finished"
    /\ respClosed' = TRUE
    /\ IF StreamGeneratorEnd(upEnd) = "stop"
       THEN /\ events' = Append(events, MessageStop)
            /\ tpc' = "stop_yielded"
       ELSE /\ events' = events
            /\ tpc' = "aborted"
    /\ demand' = FALSE
    /\ UNCHANGED <<upstream, upEnd, pos>>
    /\ UNCHANGED notStream

\* the pull after message_stop: the generator returns
TranslatorReturn ==
    /\ demand
    /\ tpc = "stop_yielded"
    /\ tpc' = "done"
    /\ demand' = FALSE
    /\ UNCHANGED <<upstream, upEnd, pos, agen, respClosed, events>>
    /\ UNCHANGED notStream

StreamInit ==
    /\ upstream = <<>>
    /\ upEnd = "open"
    /\ pos = 0
    /\ agen = "created"
    /\ respClosed = FALSE
    /\ tpc = "not_started"
    /\ demand = FALSE
    /\ events = <<>>
    /\ client = "connected"
    /\ collected = FALSE

StreamIdle ==
    /\ upstream = <<>>
    /\ upEnd = "open"
    /\ pos = 0
    /\ agen = "created"
    /\ respClosed = FALSE
    /\ tpc = "idle"
    /\ demand = FALSE
    /\ events = <<>>
    /\ client = "connected"
    /\ collected = FALSE


\* The JSON the backend answers a non-streaming request with.
Choice(hasMessage, hasContent, content) ==
    [hasMessage |-> hasMessage, hasContent |-> hasContent, content |-> content]
UpstreamPayload(isDict, hasChoices, choices) ==
    [isDict |-> isDict, hasChoices |-> hasChoices, choices |-> choices]
NoPayload == UpstreamPayload(FALSE, FALSE, <<>>)

\* a handler before its request arrives, and the dispatcher at start-up:
\* nothing resolved, nothing cached
IdleHandler ==
    [pc |-> "idle", endpoint |-> "chat", model |-> "", stream |-> FALSE,
     body |-> "none", std_model |-> "", resolved |-> "", adapter |-> 0, log |-> <<>>,
     upstream |-> NoPayload,
     exc |-> "none", status |-> 0, text |-> "", stop_reason |-> ""]
FlowIdle == handlers = [h \in Handlers |-> IdleHandler]
DispatcherInit ==
    /\ cache = <<>>
    /\ constructed = 0
    /\ returned = {}
    /\ lastCall = [key |-> "", handle |-> 0, hit |-> FALSE]
FlowInit ==
    /\ FlowIdle
    /\ DispatcherInit

ExtractIdle == xin = <<>> /\ xout = <<>> /\ xpc = "idle"
EnvelopeIdle == envIn = <<>> /\ envOut = <<>> /\ envPc = "idle"
PairIdle == streams = <<>>
AdapterIdle == apc = "idle" /\ httpClient = "none"
NormIdle ==
    req = <<>> /\ envOverride = "" /\ std = <<>> /\ npc = "idle" /\ payload = <<>>

Init == StreamInit /\ ExtractIdle /\ NormIdle /\ FlowInit /\ EnvelopeIdle /\ PairIdle /\ AdapterIdle

Next ==
    \/ \E c \in Chunks : BackendSend(c)
    \/ \E cause \in {"eof", "read_error", "error"} : BackendEnd(cause)
    \/ ClientPull
    \/ TranslatorStart
    \/ TranslatorChunk
    \/ TranslatorUpstreamEnd
    \/ TranslatorReturn

Spec == Init /\ [][Next]_vars

(***************************************************************************)
(* The request normaliser.  A text is a sequence of characters, so that    *)
(* "".join is concatenation.  A content is a plain string or a list of     *)
(* content blocks; a block has a type and an optional text.                *)
(***************************************************************************)
Str(t) == [kind |-> "str", text |-> t, blocks |-> <<>>]
Blocks(bs) == [kind |-> "blocks", text |-> <<>>, blocks |-> bs]
Block(type, hasText, t) == [type |-> type, hasText |-> hasText, text |-> t]
TextBlock(t) == Block("text", TRUE, t)
ToolUseBlock == Block("tool_use", FALSE, <<>>)

BlockTexts == {<<>>, <<"a">>, <<"b">>}
BlockSet ==
    {Block(type, TRUE, t) : type \in {"text", "tool_use"}, t \in BlockTexts}
    \cup {Block(type, FALSE, <<>>) : type \in {"text", "tool_use"}}
BlockLists == UNION {[1..n -> BlockSet] : n \in 0..MaxBlocks}
StrTexts == {<<>>, <<"a">>, <<"b">>, <<"a", "b">>}
Contents == {Str(t) : t \in StrTexts} \cup {Blocks(bs) : bs \in BlockLists}

RECURSIVE JoinTextBlocks_Spaced(_)
\* the join with a separator between the texts
JoinTextBlocks_Spaced(bs) ==
    IF bs = <<>> THEN <<>>
    ELSE LET b == Head(bs) IN
         (IF b.type = "text" /\ b.hasText /\ b.text # <<>>
          THEN b.text \o (IF Tail(bs) = <<>> THEN <<>> ELSE <<" ">>)
          ELSE <<>>)
         \o JoinTextBlocks_Spaced(Tail(bs))

RECURSIVE JoinTextBlocks(_)
\* lines 34-39: the texts of the blocks with type "text" and a non-empty
\* text, joined with no separator
JoinTextBlocks(bs) ==
    IF bs = <<>> THEN <<>>
    ELSE LET b == Head(bs) IN
         (IF b.type = "text" /\ b.hasText /\ b.text # <<>>
          THEN b.text
          ELSE <<>>)
         \o JoinTextBlocks(Tail(bs))

\* _extract_text_from_anthropic_content
ExtractText(content) ==
    IF content.kind = "str" THEN content.text
    ELSE JoinTextBlocks(content.blocks)

\* Python's truth value of a string or a list
Truthy(content) ==
    IF content.kind = "str" THEN content.text # <<>> ELSE content.blocks # <<>>

ChatMessage(role, text) == [role |-> role, content |-> text]

\* lines 60-64 left out: the system field is ignored
SystemMessages_Ignored(system) == <<>>

\* lines 60-64: the system message of the request, if any
SystemMessages(system) ==
    IF system.present /\ Truthy(system.content) /\ ExtractText(system.content) # <<>>
    THEN <<ChatMessage("system", ExtractText(system.content))>>
    ELSE <<>>

RECURSIVE StandardMessages(_)
\* lines 66-69: one ChatMessage per message whose text is not empty
StandardMessages(msgs) ==
    IF msgs = <<>> THEN <<>>
    ELSE (IF ExtractText(Head(msgs).content) # <<>>
          THEN <<ChatMessage(Head(msgs).role, ExtractText(Head(msgs).content))>>
          ELSE <<>>)
         \o StandardMessages(Tail(msgs))

\* a normaliser that does not look at the override
FinalModelName_Inbound(model, override) == model

\* lines 48-53: the override, if set, replaces the model of the request
FinalModelName(model, override) == IF override # "" THEN override ELSE model

\* _transform_anthropic_to_standard
TransformAnthropicToStandard(r, override) ==
    [model |-> FinalModelName(r.model, override),
     messages |-> SystemMessages(r.system) \o StandardMessages(r.messages),
     stream |-> r.stream,
     temperature |-> r.temperature,
     top_p |-> r.top_p,
     max_tokens |-> r.max_tokens]

\* OpenAICompatibleAdapter.chat_completions, lines 52-56: the body posted
ChatCompletionsPayload(request) ==
    [model |-> request.model,
     messages |-> request.messages,
     stream |-> request.stream]

(***************************************************************************)
(* SpecExtract: one call of _extract_text_from_anthropic_content.          *)
(***************************************************************************)
ExtractInit == xin \in Contents /\ xout = <<>> /\ xpc = "call"

ExtractCall ==
    /\ xpc = "call"
    /\ xout' = ExtractText(xin)
    /\ xpc' = "ret"
    /\ UNCHANGED xin
    /\ UNCHANGED notExtract

InitExtract == StreamIdle /\ ExtractInit /\ NormIdle /\ FlowInit /\ EnvelopeIdle /\ PairIdle /\ AdapterIdle
SpecExtract == InitExtract /\ [][ExtractCall]_vars

(***************************************************************************)
(* SpecNorm: one call of _transform_anthropic_to_standard.  The contents   *)
(* of the request are a sample of Contents: the empty string, a string, a  *)
(* list with no text block, a list of two text blocks, the empty list.     *)
(***************************************************************************)
NormContents ==
    {Str(<<>>), Str(<<"a">>), Blocks(<<ToolUseBlock>>),
     Blocks(<<TextBlock(<<"a">>), TextBlock(<<"b">>)>>), Blocks(<<>>)}
NoSystem == [present |-> FALSE, content |-> Str(<<>>)]
Systems == {NoSystem} \cup {[present |-> TRUE, content |-> c] : c \in NormContents}
InboundMessages == [role : {"user", "assistant"}, content : NormContents]
MessageLists == UNION {[1..n -> InboundMessages] : n \in 0..MaxMsgs}
Requests ==
    [model : {"m"}, system : Systems, messages : MessageLists,
     stream : BOOLEAN, temperature : {"unset", "0.2"}, top_p : {"unset", "0.9"},
     max_tokens : {1024}]

NormInit ==
    /\ req \in Requests
    /\ envOverride \in {"", "override-model"}
    /\ std = <<>>
    /\ npc = "call"
    /\ payload = <<>>

NormCall ==
    /\ npc = "call"
    /\ std' = TransformAnthropicToStandard(req, envOverride)
    /\ npc' = "ret"
    /\ UNCHANGED <<req, envOverride, payload>>
    /\ UNCHANGED notNorm

\* the adapter builds the body of its POST from the standard request
NormPost ==
    /\ npc = "ret"
    /\ payload' = ChatCompletionsPayload(std)
    /\ npc' = "sent"
    /\ UNCHANGED <<req, envOverride, std>>
    /\ UNCHANGED notNorm

InitNorm == StreamIdle /\ ExtractIdle /\ NormInit /\ FlowInit /\ EnvelopeIdle /\ PairIdle /\ AdapterIdle
NextNorm == NormCall \/ NormPost
SpecNorm == InitNorm /\ [][NextNorm]_vars

(***************************************************************************)
(* The dispatcher (app/services/model_manager.py).  MODEL_CONFIGS is what  *)
(* models.yml holds: "m" and "override-model" are served by the            *)
(* OpenAI-compatible adapter, "legacy" names an adapter that is not in     *)
(* ADAPTER_CLASS_MAP, "nokeys" lacks its key names, and the numbered       *)
(* models are as many well-configured models as it takes to fill the       *)
(* cache.  Any other name has no entry.                                    *)
(***************************************************************************)
CacheMaxSize == 128
NumberedModels == {ToString(i) : i \in 1..(CacheMaxSize + 1)}
ADAPTER_CLASS_MAP == {"OpenAICompatibleAdapter"}
MODEL_CONFIGS ==
    [n \in {"m", "override-model", "legacy", "nokeys"} \cup NumberedModels |->
        CASE n = "legacy" -> [adapter |-> "AnthropicAdapter", keys |-> TRUE]
          [] n = "nokeys" -> [adapter |-> "OpenAICompatibleAdapter", keys |-> FALSE]
          [] OTHER -> [adapter |-> "OpenAICompatibleAdapter", keys |-> TRUE]]

\* a get_adapter that constructs an adapter whatever the configuration
GetAdapterBody_AlwaysOk(model_name) == "none"

\* the body of get_adapter, lines 57-80: the exception it raises, "none" if
\* it constructs an adapter
GetAdapterBody(model_name) ==
    IF model_name \notin DOMAIN MODEL_CONFIGS THEN "ValueError"
    ELSE IF MODEL_CONFIGS[model_name].adapter \notin ADAPTER_CLASS_MAP
         THEN "NotImplementedError"
    ELSE IF ~MODEL_CONFIGS[model_name].keys THEN "ValueError"
    ELSE "none"

\* The cache of lru_cache: entries [key, handle], least recently used first.
CacheIndex(c, k) == {i \in 1..Len(c) : c[i].key = k}
Remove(c, i) == SubSeq(c, 1, i - 1) \o SubSeq(c, i + 1, Len(c))
Resolution(exc, handle, c, made, hit) ==
    [exc |-> exc, handle |-> handle, cache |-> c, constructed |-> made, hit |-> hit]

\* get_adapter without its decorator: every call runs the body
GetAdapter_Undecorated(c, made, model_name) ==
    IF GetAdapterBody(model_name) # "none"
    THEN Resolution(GetAdapterBody(model_name), 0, c, made, FALSE)
    ELSE Resolution("none", made + 1, c, made + 1, FALSE)

\* an lru_cache that looks up but never stores
GetAdapter_NoStore(c, made, model_name) ==
    IF CacheIndex(c, model_name) # {}
    THEN LET i == CHOOSE j \in CacheIndex(c, model_name) : TRUE
         IN  Resolution("none", c[i].handle, Remove(c, i) \o <<c[i]>>, made, TRUE)
    ELSE IF GetAdapterBody(model_name) # "none"
    THEN Resolution(GetAdapterBody(model_name), 0, c, made, FALSE)
    ELSE Resolution("none", made + 1, c, made + 1, FALSE)

\* get_adapter as decorated by lru_cache(maxsize=128), line 52: a hit
\* returns the cached handle and makes the entry the most recent; a miss
\* runs the body; an exception is not cached; a new handle is stored, the
\* least recently used entry making room when the cache is full.  `made`
\* counts the adapters constructed so far and names the new handle.
GetAdapter(c, made, model_name) ==
    IF CacheIndex(c, model_name) # {}
    THEN LET i == CHOOSE j \in CacheIndex(c, model_name) : TRUE
         IN  Resolution("none", c[i].handle, Remove(c, i) \o <<c[i]>>, made, TRUE)
    ELSE IF GetAdapterBody(model_name) # "none"
    THEN Resolution(GetAdapterBody(model_name), 0, c, made, FALSE)
    ELSE LET kept == IF Len(c) >= CacheMaxSize THEN Tail(c) ELSE c
         IN  Resolution("none", made + 1,
                        kept \o <<[key |-> model_name, handle |-> made + 1]>>,
                        made + 1, FALSE)

(***************************************************************************)
(* The two endpoints: POST /v1/messages (anthropic_proxy) and              *)
(* POST /chat/completions (chat.chat_completions).  A handler is one       *)
(* request being served; handlers are coroutines of one event loop, so a   *)
(* handler runs alone from one await to the next.  The only await of a     *)
(* handler is the adapter's client.send.                                   *)
(***************************************************************************)
FlowModels == {"m", "legacy", "nokeys", "ghost"}

UpstreamPayloads ==
    {UpstreamPayload(FALSE, FALSE, <<>>),                            \* []
     UpstreamPayload(TRUE, FALSE, <<>>),                             \* {}
     UpstreamPayload(TRUE, TRUE, <<>>),                              \* {"choices": []}
     UpstreamPayload(TRUE, TRUE, <<Choice(FALSE, FALSE, "")>>),      \* {"choices": [{}]}
     UpstreamPayload(TRUE, TRUE, <<Choice(TRUE, FALSE, "")>>),       \* no content
     UpstreamPayload(TRUE, TRUE, <<Choice(TRUE, TRUE, "Hello.")>>),
     UpstreamPayload(TRUE, TRUE, <<Choice(TRUE, TRUE, "Hello."),
                                   Choice(TRUE, TRUE, "Bye.")>>)}
\* what client.send and raise_for_status make of the backend's answer
UpstreamOutcomes == {"http_error", "ok"}

Translation(exc, text, stop_reason) ==
    [exc |-> exc, text |-> text, stop_reason |-> stop_reason]

\* .get("message", {}).get("content", "") of one choice
ChoiceText(ch) == IF ch.hasMessage /\ ch.hasContent THEN ch.content ELSE ""

\* a translation that reads the last completion
TranslateResponse_LastChoice(p) ==
    IF ~p.isDict THEN Translation("ValueError", "", "")
    ELSE LET choices == IF p.hasChoices THEN p.choices
                        ELSE <<Choice(FALSE, FALSE, "")>>
         IN  IF choices = <<>> THEN Translation("IndexError", "", "")
             ELSE Translation("none", ChoiceText(choices[Len(choices)]), "end_turn")

\* anthropic_proxy, lines 139-151: the envelope built from the backend's
\* JSON.  choices defaults to [{}]; [0] of an empty list raises IndexError.
TranslateResponse(p) ==
    IF ~p.isDict THEN Translation("ValueError", "", "")
    ELSE LET choices == IF p.hasChoices THEN p.choices
                        ELSE <<Choice(FALSE, FALSE, "")>>
         IN  IF choices = <<>> THEN Translation("IndexError", "", "")
             ELSE Translation("none", ChoiceText(choices[1]), "end_turn")

\* chat.chat_completions, lines 42-46: the backend's JSON is returned as is
PassResponse(p) ==
    IF ~p.isDict THEN Translation("ValueError", "", "")
    ELSE Translation("none", "", "")

\* anthropic_proxy, lines 153-156: every exception is answered with 500
AnthropicErrorStatus(exc) == 500
\* chat.chat_completions, lines 48-53: 400 for a ValueError, 500 otherwise
ChatErrorStatus(exc) == IF exc = "ValueError" THEN 400 ELSE 500
\* bedrock_proxy, proxy.py lines 69-74: 400 for a ValueError, 500 otherwise
BedrockErrorStatus(exc) == IF exc = "ValueError" THEN 400 ELSE 500
ErrorStatus(endpoint, exc) ==
    CASE endpoint = "chat" -> ChatErrorStatus(exc)
      [] endpoint = "bedrock" -> BedrockErrorStatus(exc)
      [] OTHER -> AnthropicErrorStatus(exc)

\* the request a handler of the Anthropic endpoint receives
FlowRequest(model, stream) ==
    [model |-> model, system |-> NoSystem,
     messages |-> <<[role |-> "user", content |-> Str(<<"a">>)]>>,
     stream |-> stream, temperature |-> "unset", top_p |-> "unset",
     max_tokens |-> 1024]


\* a handler ends with an error response
Failed(hr, exc) ==
    [hr EXCEPT !.pc = "done", !.exc = exc,
               !.status = ErrorStatus(hr.endpoint, exc)]


\* a request arrives; the chat endpoint's request is a standard request,
\* the Anthropic endpoint's is normalised first
Arrive(h, endpoint, model, stream) ==
    /\ handlers[h].pc = "idle"
    /\ handlers' = [handlers EXCEPT ![h] =
          [@ EXCEPT !.pc = IF endpoint = "anthropic" THEN "transform" ELSE "resolve",
                    !.endpoint = endpoint, !.model = model, !.stream = stream]]
    /\ UNCHANGED dispVars
    /\ UNCHANGED notFlow

\* anthropic_proxy line 129
Transform(h) ==
    /\ handlers[h].pc = "transform"
    /\ handlers' = [handlers EXCEPT ![h] =
          [@ EXCEPT !.pc = "resolve",
                    !.std_model = TransformAnthropicToStandard(
                                      FlowRequest(handlers[h].model, handlers[h].stream),
                                      envOverride).model]]
    /\ UNCHANGED dispVars
    /\ UNCHANGED notFlow

\* anthropic_proxy line 131, chat line 35: get_adapter(model_name=...model)
Resolve(h) ==
    /\ handlers[h].pc = "resolve"
    /\ LET name == IF handlers[h].endpoint = "anthropic"
                   THEN handlers[h].std_model ELSE handlers[h].model
           r == GetAdapter(cache, constructed, name)
           hr == [handlers[h] EXCEPT !.log = Append(@, "get_adapter"),
                                     !.resolved = name]
       IN  /\ cache' = r.cache
           /\ constructed' = r.constructed
           /\ handlers' = [handlers EXCEPT ![h] =
                 IF r.exc # "none" THEN Failed(hr, r.exc)
                 ELSE [hr EXCEPT !.pc = "post", !.adapter = r.handle]]
    /\ UNCHANGED <<returned, lastCall>>
    /\ UNCHANGED notFlow

\* adapter.chat_completions up to `await client.send`, lines 47-68
Post(h) ==
    /\ handlers[h].pc = "post"
    /\ handlers' = [handlers EXCEPT ![h] =
          [@ EXCEPT !.pc = "await", !.log = Append(@, "chat_completions")]]
    /\ UNCHANGED dispVars
    /\ UNCHANGED notFlow

\* the backend answers; the handler runs to its response
Receive(h, outcome, p) ==
    /\ handlers[h].pc = "await"
    /\ handlers' = [handlers EXCEPT ![h] =
          IF outcome = "http_error" THEN Failed(@, "HTTPStatusError")
          ELSE IF @.stream THEN [@ EXCEPT !.pc = "done", !.status = 200]
          ELSE LET t == IF @.endpoint = "anthropic" THEN TranslateResponse(p)
                        ELSE PassResponse(p)
                   hr == [@ EXCEPT !.upstream = p]
               IN  IF t.exc # "none" THEN Failed(hr, t.exc)
                   ELSE [hr EXCEPT !.pc = "done", !.status = 200,
                                   !.text = t.text, !.stop_reason = t.stop_reason]]
    /\ UNCHANGED dispVars
    /\ UNCHANGED notFlow

InitFlow ==
    /\ StreamIdle /\ ExtractIdle
    /\ req = <<>> /\ envOverride \in {"", "override-model"}
    /\ std = <<>> /\ npc = "idle" /\ payload = <<>>
    /\ FlowInit
    /\ EnvelopeIdle /\ PairIdle /\ AdapterIdle
NextFlow ==
    \/ \E h \in Handlers, ep \in {"anthropic", "chat"}, m \in FlowModels, s \in BOOLEAN :
          Arrive(h, ep, m, s)
    \/ \E h \in Handlers : Transform(h)
    \/ \E h \in Handlers : Resolve(h)
    \/ \E h \in Handlers : Post(h)
    \/ \E h \in Handlers, o \in UpstreamOutcomes, p \in UpstreamPayloads :
          Receive(h, o, p)
SpecFlow == InitFlow /\ [][NextFlow]_vars

(***************************************************************************)
(* SpecCache: get_adapter called again and again.  The first model, "1",   *)
(* is the one watched; the other models are first used in the order of     *)
(* their numbers (they are all alike), and a call names "1", the model     *)
(* used last, or the next new model.  `returned` is the set of             *)
(* [key, handle] pairs get_adapter has returned, lastCall the last one.    *)
(***************************************************************************)
ResolvedNames == {r.key : r \in returned}
CallNames ==
    LET n == Cardinality(ResolvedNames)
    IN  {"1"} \cup {ToString(n)  : x \in {y \in {1} : n >= 1}}
              \cup {ToString(n + 1) : x \in {y \in {1} : n <= CacheMaxSize}}

GetAdapterCall(model_name) ==
    /\ LET r == GetAdapter(cache, constructed, model_name)
       IN  /\ cache' = r.cache
           /\ constructed' = r.constructed
           /\ returned' = returned \cup {[key |-> model_name, handle |-> r.handle]}
           /\ lastCall' = [key |-> model_name, handle |-> r.handle, hit |-> r.hit]
    /\ UNCHANGED handlers
    /\ UNCHANGED notFlow

NextCache == \E model_name \in CallNames : GetAdapterCall(model_name)
InitCache == StreamIdle /\ ExtractIdle /\ NormIdle /\ FlowInit /\ EnvelopeIdle /\ PairIdle /\ AdapterIdle
SpecCache == InitCache /\ [][NextCache]_vars

(***************************************************************************)
(* SpecRelease: the streaming response with a client that may go away.     *)
(* Starlette cancels the task that iterates the translator when the client *)
(* disconnects; nothing closes the two generators explicitly, they are     *)
(* finalized when they are collected.  The chunks are a sample of Chunks.  *)
(***************************************************************************)
ReleaseChunks == {TextChunk("He"), BadJsonChunk, EmptyChoicesChunk}

\* What finalization does to _stream_response_generator
\* (openai_compatible.py lines 27-38): a generator suspended at its yield
\* is closed, GeneratorExit is no Exception, and the finally clause closes
\* the response; a generator that was never started has no frame to
\* unwind, so its finally clause never runs.
CloseGenerator(state, closed) ==
    IF state = "suspended" THEN [agen |-> "finished", respClosed |-> TRUE]
    ELSE [agen |-> state, respClosed |-> closed]

\* The client disconnects while the response is being streamed.  If the
\* translator is waiting for the next chunk (a pull is pending in the
\* loop), the adapter generator is waiting in response.aiter_bytes():
\* CancelledError is raised there, it is no Exception, and the finally
\* clause closes the response.  Otherwise the translator is suspended at a
\* yield, or was never started, and the cancellation does not reach it.
\* The pulls that start the translator or end it have no await, so no
\* disconnect falls between them and the translator's step.
ClientDisconnect ==
    /\ client = "connected"
    /\ tpc \in {"not_started", "streaming", "stop_yielded"}
    /\ demand => tpc = "streaming"
    /\ client' = "gone"
    /\ IF demand
       THEN /\ tpc' = "cancelled"
            /\ agen' = "finished"
            /\ respClosed' = TRUE
            /\ demand' = FALSE
       ELSE UNCHANGED <<tpc, agen, respClosed, demand>>
    /\ UNCHANGED <<upstream, upEnd, pos, events, collected>>
    /\ UNCHANGED notResponse

\* The generators of a response that was abandoned (the client is gone, or
\* an exception left the translator) are collected and finalized.
GeneratorsCollected ==
    /\ ~collected
    /\ \/ client = "gone" /\ tpc \in {"not_started", "streaming", "stop_yielded"}
       \/ tpc = "aborted"
    /\ collected' = TRUE
    /\ tpc' = IF tpc = "aborted" THEN tpc ELSE "closed"
    /\ agen' = CloseGenerator(agen, respClosed).agen
    /\ respClosed' = CloseGenerator(agen, respClosed).respClosed
    /\ UNCHANGED <<upstream, upEnd, pos, demand, events, client>>
    /\ UNCHANGED notResponse

NextRelease ==
    \/ \E c \in ReleaseChunks : BackendSend(c)
    \/ \E cause \in {"eof", "read_error", "error"} : BackendEnd(cause)
    \/ ClientPull
    \/ TranslatorStart
    \/ TranslatorChunk
    \/ TranslatorUpstreamEnd
    \/ TranslatorReturn
    \/ ClientDisconnect
    \/ GeneratorsCollected
InitRelease == StreamInit /\ ExtractIdle /\ NormIdle /\ FlowInit /\ EnvelopeIdle /\ PairIdle /\ AdapterIdle
SpecRelease == InitRelease /\ [][NextRelease]_vars

(***************************************************************************)
(* SpecEnvelope: the non-streaming translation of anthropic_proxy (lines   *)
(* 139-149) on one backend payload, with its `usage`.  The usage of the    *)
(* payload is absent, null, or an object holding the counters it has.      *)
(***************************************************************************)
Usage(kind, hasPrompt, prompt, hasCompletion, completion) ==
    [kind |-> kind, hasPrompt |-> hasPrompt, prompt_tokens |-> prompt,
     hasCompletion |-> hasCompletion, completion_tokens |-> completion]
UsageCounts == {0, 5, 7}
Usages ==
    {Usage("absent", FALSE, 0, FALSE, 0), Usage("null", FALSE, 0, FALSE, 0),
     Usage("object", FALSE, 0, FALSE, 0)}
    \cup {Usage("object", TRUE, a, TRUE, b) : a \in UsageCounts, b \in UsageCounts}
    \cup {Usage("object", TRUE, a, FALSE, 0) : a \in UsageCounts}
    \cup {Usage("object", FALSE, 0, TRUE, b) : b \in UsageCounts}

\* line 147: adapter_response.get("usage", {"prompt_tokens": 0,
\* "completion_tokens": 0}): the default stands in for an absent key only
EnvelopeUsage(u) ==
    IF u.kind = "absent" THEN Usage("object", TRUE, 0, TRUE, 0) ELSE u

EnvelopeInit ==
    /\ envIn \in [body : UpstreamPayloads, usage : Usages]
    /\ envOut = <<>>
    /\ envPc = "call"

EnvelopeCall ==
    /\ envPc = "call"
    /\ LET t == TranslateResponse(envIn.body)
       IN  envOut' = [exc |-> t.exc, text |-> t.text, stop_reason |-> t.stop_reason,
                      usage |-> EnvelopeUsage(envIn.usage)]
    /\ envPc' = "ret"
    /\ UNCHANGED envIn
    /\ UNCHANGED notEnvelope

InitEnvelope == StreamIdle /\ ExtractIdle /\ NormIdle /\ FlowInit /\ EnvelopeInit /\ PairIdle /\ AdapterIdle
SpecEnvelope == InitEnvelope /\ [][EnvelopeCall]_vars

(***************************************************************************)
(* SpecPair: streaming responses served concurrently.  Each response has   *)
(* its own backend response, its own adapter generator and its own         *)
(* translator; the steps are those of Spec, taken on the record of one     *)
(* response.  The chunks are a sample of Chunks.                           *)
(***************************************************************************)
Responses == {1, 2}
PairChunks == {TextChunk("He"), TextChunk("llo"), BadJsonChunk}

NewStream ==
    [upstream |-> <<>>, upEnd |-> "open", pos |-> 0, agen |-> "created",
     respClosed |-> FALSE, tpc |-> "not_started", demand |-> FALSE, events |-> <<>>]

\* a translator handed the chunk of whichever response has one waiting
NextChunk_Shared(ss, i) ==
    LET ready == {j \in Responses : ss[j].pos < Len(ss[j].upstream)}
        j == IF 1 \in ready THEN 1 ELSE 2
    IN  ss[j].upstream[ss[j].pos + 1]

\* lines 100-101: the translator iterates the adapter_response it was
\* given, the generator over its own request's response
NextChunk(ss, i) == ss[i].upstream[ss[i].pos + 1]

PairBackendSend(i, c) ==
    /\ streams[i].upEnd = "open"
    /\ Len(streams[i].upstream) < MaxPairChunks
    /\ streams' = [streams EXCEPT ![i].upstream = Append(@, c)]
    /\ UNCHANGED notPair

PairBackendEnd(i, cause) ==
    /\ streams[i].upEnd = "open"
    /\ streams' = [streams EXCEPT ![i].upEnd = cause]
    /\ UNCHANGED notPair

PairClientPull(i) ==
    /\ ~streams[i].demand
    /\ streams[i].tpc \in {"not_started", "streaming", "stop_yielded"}
    /\ streams' = [streams EXCEPT ![i].demand = TRUE]
    /\ UNCHANGED notPair

PairTranslatorStart(i) ==
    /\ streams[i].demand
    /\ streams[i].tpc = "not_started"
    /\ streams' = [streams EXCEPT ![i].events = Append(@, MessageStart),
                                  ![i].tpc = "streaming",
                                  ![i].demand = FALSE]
    /\ UNCHANGED notPair

PairTranslatorChunk(i) ==
    /\ streams[i].demand
    /\ streams[i].tpc = "streaming"
    /\ streams[i].agen # "finished"
    /\ streams[i].pos < Len(streams[i].upstream)
    /\ LET r == ProcessChunk(NextChunk(streams, i)) IN
       streams' = [streams EXCEPT
          ![i].pos = @ + 1,
          ![i].agen = "suspended",
          ![i].events = IF r.outcome = "yield" THEN Append(@, r.ev) ELSE @,
          ![i].tpc = IF r.outcome = "raise" THEN "aborted" ELSE @,
          ![i].demand = (r.outcome = "skip")]
    /\ UNCHANGED notPair

PairTranslatorUpstreamEnd(i) ==
    /\ streams[i].demand
    /\ streams[i].tpc = "streaming"
    /\ streams[i].agen # "finished"
    /\ streams[i].pos = Len(streams[i].upstream)
    /\ streams[i].upEnd # "open"
    /\ streams' = [streams EXCEPT
          ![i].agen = "finished",
          ![i].respClosed = TRUE,
          ![i].events = IF StreamGeneratorEnd(streams[i].upEnd) = "stop"
                        THEN Append(@, MessageStop) ELSE @,
          ![i].tpc = IF StreamGeneratorEnd(streams[i].upEnd) = "stop"
                     THEN "stop_yielded" ELSE "aborted",
          ![i].demand = FALSE]
    /\ UNCHANGED notPair

PairTranslatorReturn(i) ==
    /\ streams[i].demand
    /\ streams[i].tpc = "stop_yielded"
    /\ streams' = [streams EXCEPT ![i].tpc = "done", ![i].demand = FALSE]
    /\ UNCHANGED notPair

PairInit == streams = [i \in Responses |-> NewStream]
InitPair ==
    /\ StreamIdle /\ ExtractIdle /\ NormIdle /\ FlowInit /\ EnvelopeIdle
    /\ PairInit /\ AdapterIdle
NextPair ==
    \/ \E i \in Responses, c \in PairChunks : PairBackendSend(i, c)
    \/ \E i \in Responses, cause \in {"eof", "read_error"} : PairBackendEnd(i, cause)
    \/ \E i \in Responses : PairClientPull(i)
    \/ \E i \in Responses : PairTranslatorStart(i)
    \/ \E i \in Responses : PairTranslatorChunk(i)
    \/ \E i \in Responses : PairTranslatorUpstreamEnd(i)
    \/ \E i \in Responses : PairTranslatorReturn(i)
SpecPair == InitPair /\ [][NextPair]_vars

(***************************************************************************)
(* SpecAdapter: OpenAICompatibleAdapter.chat_completions on a streaming    *)
(* request, and the consumption of the generator it returns (the chat      *)
(* endpoint hands it to StreamingResponse as it is).  The statements of    *)
(* lines 58-80 run inside `async with httpx.AsyncClient() as client`, and  *)
(* leaving that block, by return or by exception, closes the client.       *)
(***************************************************************************)
StatusCodes == {200, 500}

\* lines 58-68: the client is opened and the request sent
AdapterEnter ==
    /\ apc = "enter"
    /\ httpClient' = "open"
    /\ apc' = "sending"
    /\ UNCHANGED streamVars
    /\ UNCHANGED notTransport

\* lines 68-78: the response arrives.  Another status than 200: the body is
\* read (which closes the response) and raise_for_status raises.  200: the
\* generator is created, not started, and returned.  Either way the
\* `async with` block is left and the client closed.
AdapterResponse(code) ==
    /\ apc = "sending"
    /\ httpClient' = "closed"
    /\ IF code # 200
       THEN /\ apc' = "failed"
            /\ respClosed' = TRUE
            /\ upEnd' = "eof"
       ELSE /\ apc' = "returned"
            /\ UNCHANGED <<respClosed, upEnd>>
    /\ UNCHANGED <<upstream, pos, agen, tpc, demand, events>>
    /\ UNCHANGED notTransport

\* the backend writes the body of a 200 response
AdapterBackendSend(c) == apc = "returned" /\ BackendSend(c)
AdapterBackendEnd(cause) == apc = "returned" /\ BackendEnd(cause)

\* lines 28-29: the consumer pulls the generator and gets the next chunk
GeneratorChunk ==
    /\ apc = "returned"
    /\ agen # "finished"
    /\ pos < Len(upstream)
    /\ pos' = pos + 1
    /\ agen' = "suspended"
    /\ UNCHANGED <<upstream, upEnd, respClosed, tpc, demand, events>>
    /\ UNCHANGED adapterVars
    /\ UNCHANGED notTransport

\* lines 30-38: the body is over, or reading it raises (what a read on a
\* response whose client is closed does is httpx's business: it may raise
\* at any pull); the exception is logged and the response closed
GeneratorEnd ==
    /\ apc = "returned"
    /\ agen # "finished"
    /\ \/ pos = Len(upstream) /\ upEnd # "open"
       \/ httpClient = "closed"
    /\ StreamGeneratorEnd(IF upEnd = "open" THEN "read_error" ELSE upEnd) = "stop"
    /\ agen' = "finished"
    /\ respClosed' = TRUE
    /\ UNCHANGED <<upstream, upEnd, pos, tpc, demand, events>>
    /\ UNCHANGED adapterVars
    /\ UNCHANGED notTransport

AdapterInit == apc = "enter" /\ httpClient = "none"
InitAdapter ==
    /\ StreamIdle /\ ExtractIdle /\ NormIdle /\ FlowInit /\ EnvelopeIdle /\ PairIdle
    /\ AdapterInit
NextAdapter ==
    \/ AdapterEnter
    \/ \E code \in StatusCodes : AdapterResponse(code)
    \/ \E c \in ReleaseChunks : AdapterBackendSend(c)
    \/ \E cause \in {"eof", "read_error", "error"} : AdapterBackendEnd(cause)
    \/ GeneratorChunk
    \/ GeneratorEnd
SpecAdapter == InitAdapter /\ [][NextAdapter]_vars

(***************************************************************************)
(* SpecBedrock: requests served by bedrock_proxy (proxy.py).  The body of  *)
(* a request is described by what _extract_and_transform_request makes of  *)
(* it: "invalid_json" (request.json() raises), "not_object" (a JSON value  *)
(* without .get), "bad_message" (a message ChatMessage.parse_obj rejects), *)
(* "ok" and "ok_stream" (a standard request, stream false or true).        *)
(***************************************************************************)
BedrockBodies == {"invalid_json", "not_object", "bad_message", "ok", "ok_stream"}
Unparsable == {"invalid_json", "not_object", "bad_message"}

\* _extract_and_transform_request, lines 23-40: the exception that leaves
\* it, "none" when it returns the standard request.  Every exception of the
\* parsing is replaced by HTTPException(status_code=400).
ExtractAndTransform(body) ==
    IF body \in Unparsable THEN "HTTPException" ELSE "none"

BedrockArrive(h, model, body) ==
    /\ handlers[h].pc = "idle"
    /\ handlers' = [handlers EXCEPT ![h] =
          [@ EXCEPT !.pc = "parse", !.endpoint = "bedrock", !.model = model,
                    !.body = body]]
    /\ UNCHANGED dispVars
    /\ UNCHANGED notFlow

\* line 55, inside the try of lines 51-74: the HTTPException raised by
\* _extract_and_transform_request is caught by the handler's own except
\* clauses like any other exception
BedrockParse(h) ==
    /\ handlers[h].pc = "parse"
    /\ handlers' = [handlers EXCEPT ![h] =
          IF ExtractAndTransform(@.body) # "none"
          THEN Failed(@, ExtractAndTransform(@.body))
          ELSE [@ EXCEPT !.pc = "resolve",
                         !.stream = (handlers[h].body = "ok_stream")]]
    /\ UNCHANGED dispVars
    /\ UNCHANGED notFlow

\* lines 61-67: the adapter's answer is returned as it is
BedrockReceive(h, outcome) ==
    /\ handlers[h].pc = "await"
    /\ handlers[h].endpoint = "bedrock"
    /\ handlers' = [handlers EXCEPT ![h] =
          IF outcome = "http_error" THEN Failed(@, "HTTPStatusError")
          ELSE [@ EXCEPT !.pc = "done", !.status = 200]]
    /\ UNCHANGED dispVars
    /\ UNCHANGED notFlow

InitBedrock ==
    /\ StreamIdle /\ ExtractIdle /\ NormIdle /\ FlowInit /\ EnvelopeIdle /\ PairIdle
    /\ AdapterIdle
NextBedrock ==
    \/ \E h \in Handlers, m \in FlowModels, b \in BedrockBodies : BedrockArrive(h, m, b)
    \/ \E h \in Handlers : BedrockParse(h)
    \/ \E h \in Handlers : Resolve(h)
    \/ \E h \in Handlers : Post(h)
    \/ \E h \in Handlers, o \in UpstreamOutcomes : BedrockReceive(h, o)
SpecBedrock == InitBedrock /\ [][NextBedrock]_vars

(***************************************************************************)
(* Vocabulary of the properties of the streaming translator.               *)
(***************************************************************************)
Consumed == SubSeq(upstream, 1, pos)
IsSentinel(c) == c.line = "done"
IsInvalidJson(c) == c.line = "data" /\ c.json = "invalid"
\* one `data: <json>` line, whatever the JSON value
IsDataJsonLine(c) == c.line = "data" /\ c.json # "invalid"
\* a chat-completion chunk of the expected shape
IsWellFormed(c) ==
    c.line = "data" /\ c.json = "object" /\ c.choices = "list" /\ c.delta = "object"
CarriesTextDelta(c) == IsWellFormed(c) /\ c.content = "str" /\ c.text # ""
CarriesToolFragment(c) == IsWellFormed(c) /\ c.tool # "none"

RECURSIVE ExpectedDeltas(_)
\* the content_block_delta events the text deltas of chunks cs call for
ExpectedDeltas(cs) ==
    IF cs = <<>> THEN <<>>
    ELSE (IF CarriesTextDelta(Head(cs))
          THEN <<ContentBlockDelta(Head(cs).text)>>
          ELSE <<>>) \o ExpectedDeltas(Tail(cs))

Count(evs, type) == Cardinality({i \in 1..Len(evs) : evs[i].type = type})
Stopped == tpc \in {"stop_yielded", "done"}
Terminated == tpc \in {"stop_yielded", "done", "aborted"}
Rank(p) ==
    CASE p = "not_started" -> 0
      [] p = "streaming" -> 1
      [] OTHER -> 2

(***************************************************************************)
(* C1.  The translator goes NOT_STARTED -> STREAMING -> STOPPED and never  *)
(* back; message_start is the first event and the only message_start, and *)
(* it has been emitted once the translator has started; message_stop is    *)
(* emitted at most once, and nothing is emitted after it.                  *)
(***************************************************************************)
C1_EventOrder ==
    /\ (tpc # "not_started") = (events # <<>>)
    /\ events # <<>> => events[1] = MessageStart
    /\ Count(events, "message_start") <= 1
    /\ Count(events, "message_stop") <= 1
    /\ \A i \in 1..Len(events) :
         events[i].type = "message_stop" => i = Len(events)
    /\ Stopped => Count(events, "message_stop") = 1

\* a step never lowers the state and only appends to the events emitted
C1_NoReverse ==
    /\ Rank(tpc') >= Rank(tpc)
    /\ Len(events') >= Len(events)
    /\ SubSeq(events', 1, Len(events)) = events

C2_SentinelStops ==
    \A i \in 1..pos :
        IsSentinel(upstream[i]) =>
            /\ Stopped
            /\ events[Len(events)] = MessageStop
            /\ Count(events, "content_block_delta")
                 = Len(ExpectedDeltas(SubSeq(upstream, 1, i - 1)))

(***************************************************************************)
(* C3.  For a response whose chunks are each one `data: <json>` line       *)
(* (with the sentinel as the last one, if any), once the response is over  *)
(* and the translator has ended, the events are message_start, then one    *)
(* content_block_delta per chunk carrying a non-empty text delta, texts    *)
(* and order those of the chunks, then message_stop.                       *)
(***************************************************************************)
C3_DeltasInOrder ==
    ( /\ \A i \in 1..Len(upstream) :
            \/ IsDataJsonLine(upstream[i])
            \/ IsSentinel(upstream[i]) /\ i = Len(upstream)
      /\ upEnd # "open"
      /\ Terminated )
    => events = <<MessageStart>> \o ExpectedDeltas(upstream) \o <<MessageStop>>

\* what does hold of the code: the deltas emitted are those of the chunks
\* taken so far, in their order
DeltasOfConsumed ==
    SelectSeq(events, LAMBDA e : e.type = "content_block_delta")
        = ExpectedDeltas(Consumed)

(***************************************************************************)
(* C4.  A chunk whose payload is not valid JSON is skipped: the step that  *)
(* takes it emits nothing and leaves the translator streaming and pulling; *)
(* in a response of such chunks and of valid chunks (well-formed chunks,   *)
(* the sentinel) every valid chunk taken has produced its event, and the   *)
(* translator ends with message_stop.  [`data: {bad json`, "X", [DONE]]    *)
(* gives message_start, one content_block_delta "X", message_stop.         *)
(***************************************************************************)
C4_SkipStep ==
    (pos' = pos + 1 /\ IsInvalidJson(upstream[pos + 1]))
        => (events' = events /\ tpc' = tpc /\ demand')

C4_LaterChunksDelivered ==
    (\A i \in 1..Len(upstream) :
        IsInvalidJson(upstream[i]) \/ IsWellFormed(upstream[i]) \/ IsSentinel(upstream[i]))
    => /\ tpc # "aborted"
       /\ DeltasOfConsumed
       /\ (Stopped => events = <<MessageStart>> \o ExpectedDeltas(upstream)
                                    \o <<MessageStop>>)

C4_Example ==
    (upstream = <<BadJsonChunk, TextChunk("X"), DoneChunk>> /\ tpc = "done")
        => events = <<MessageStart, ContentBlockDelta("X"), MessageStop>>

\* C4: an invalid-JSON chunk is skipped and the later valid chunks still
\* produce their events, followed by message_stop
C4_BadJsonSkipped ==
    [](C4_LaterChunksDelivered /\ C4_Example) /\ [][C4_SkipStep]_vars

C4_Witness ==
    /\ upstream = <<BadJsonChunk, TextChunk("X"), DoneChunk>>
    /\ upEnd = "eof"
    /\ tpc = "done"
    /\ Len(events) = 3

(***************************************************************************)
(* C5.  No chunk makes the translator end with an exception.               *)
(***************************************************************************)
C5_NoChunkAborts == tpc # "aborted"

(***************************************************************************)
(* C6.  When the response ended without the sentinel, or with a read       *)
(* error, and the translator has ended, its events end with the one        *)
(* message_stop.                                                           *)
(***************************************************************************)
C6_EndsWithStop ==
    ( /\ \/ upEnd = "read_error"
         \/ upEnd = "eof" /\ \A i \in 1..Len(upstream) : ~IsSentinel(upstream[i])
      /\ Terminated )
    => /\ Count(events, "message_stop") = 1
       /\ events[Len(events)] = MessageStop

\* what does hold of the code: once the adapter generator has ended, for
\* whichever reason, the translator has emitted the one message_stop
StopAfterGeneratorEnd ==
    agen = "finished" =>
        /\ Stopped
        /\ Count(events, "message_stop") = 1
        /\ events[Len(events)] = MessageStop

(***************************************************************************)
(* C7.  Each tool-call fragment taken has produced its events: a           *)
(* content_block_start for the first fragment of an index, and an          *)
(* input-delta event (a content_block_delta of that index) per fragment.   *)
(***************************************************************************)
C7_ToolCallEvents ==
    LET frags == {i \in 1..pos : CarriesToolFragment(upstream[i])}
        firsts == {i \in frags : upstream[i].tool = "first"}
    IN  /\ Count(events, "content_block_start") = Cardinality(firsts)
        /\ Cardinality({k \in 1..Len(events) :
                           /\ events[k].type = "content_block_delta"
                           /\ events[k].text = "" }) = Cardinality(frags)

(***************************************************************************)
(* Vocabulary of the properties of the normaliser.                         *)
(***************************************************************************)
RECURSIVE ConcatOfTextBlocks(_)
\* the texts of the text-typed blocks one after the other (a block with no
\* text has none to give)
ConcatOfTextBlocks(bs) ==
    IF bs = <<>> THEN <<>>
    ELSE (IF Head(bs).type = "text" /\ Head(bs).hasText THEN Head(bs).text ELSE <<>>)
         \o ConcatOfTextBlocks(Tail(bs))

SystemIsString == req.system.present /\ req.system.content.kind = "str"
HasSystemMessage == \E i \in 1..Len(std.messages) : std.messages[i].role = "system"
SystemFirst ==
    /\ Len(std.messages) >= 1
    /\ std.messages[1] = ChatMessage("system", req.system.content.text)
    /\ \A i \in 2..Len(std.messages) : std.messages[i].role # "system"

(***************************************************************************)
(* C8.  As claimed: a system field that is a string gives a system message *)
(* with that string, first; no system field gives no system message.       *)
(***************************************************************************)
C8_SystemStringFirst ==
    npc \in {"ret", "sent"} =>
        /\ SystemIsString => SystemFirst
        /\ ~req.system.present => ~HasSystemMessage

\* C8, amended: a system field that is a non-empty string gives a system
\* message with that string, before all other messages; no system field, or
\* the empty string, gives no system message
C8_NonEmptySystemFirst ==
    npc \in {"ret", "sent"} =>
        /\ (SystemIsString /\ req.system.content.text # <<>>) => SystemFirst
        /\ (~req.system.present \/ (SystemIsString /\ req.system.content.text = <<>>))
              => ~HasSystemMessage

C8_Witness ==
    /\ npc = "ret"
    /\ SystemIsString
    /\ req.system.content.text # <<>>
    /\ Len(req.messages) = 2
    /\ Len(std.messages) = 3

\* C9: a block list gives the texts of its text-typed blocks, in list order
\* and with nothing between them, whatever other blocks it holds; a plain
\* string is returned unchanged
C9_ConcatTextBlocks ==
    xpc = "ret" =>
        IF xin.kind = "str"
        THEN xout = xin.text
        ELSE xout = ConcatOfTextBlocks(xin.blocks)

C9_Witness ==
    /\ xpc = "ret"
    /\ xin.kind = "blocks"
    /\ Len(xin.blocks) = 2
    /\ xin.blocks[1] = TextBlock(<<"a">>)
    /\ xin.blocks[2] = TextBlock(<<"b">>)
    /\ xout = <<"a", "b">>

\* C10: a request with at least one message is normalised to a request with
\* at least one message
C10_MessagesNonEmpty ==
    (npc \in {"ret", "sent"} /\ Len(req.messages) >= 1) => Len(std.messages) >= 1

(***************************************************************************)
(* C11.  Each inbound message gives exactly one canonical message with     *)
(* its role, in order: n messages give n canonical messages, and n+1 with  *)
(* the system message first when the request has a system field.           *)
(***************************************************************************)
C11_OneMessageEach ==
    npc \in {"ret", "sent"} =>
        LET n == Len(req.messages)
            off == IF req.system.present THEN 1 ELSE 0
        IN  /\ Len(std.messages) = n + off
            /\ off = 1 => std.messages[1].role = "system"
            /\ \A i \in 1..n : std.messages[i + off].role = req.messages[i].role

(***************************************************************************)
(* C13.  stream, temperature, top_p and max_tokens of the inbound request  *)
(* are those of the canonical request, and the body posted carries every   *)
(* field of the canonical request with its value.                          *)
(***************************************************************************)
C13_ParametersForwarded ==
    /\ npc \in {"ret", "sent"} =>
        /\ std.stream = req.stream
        /\ std.temperature = req.temperature
        /\ std.top_p = req.top_p
        /\ std.max_tokens = req.max_tokens
    /\ npc = "sent" =>
        /\ payload.model = std.model
        /\ payload.messages = std.messages
        /\ payload.stream = std.stream
        /\ "max_tokens" \in DOMAIN payload /\ payload.max_tokens = std.max_tokens
        /\ std.temperature # "unset" =>
             ("temperature" \in DOMAIN payload /\ payload.temperature = std.temperature)
        /\ std.top_p # "unset" =>
             ("top_p" \in DOMAIN payload /\ payload.top_p = std.top_p)

\* what does hold of the code: the normaliser passes the four parameters on,
\* and the body posted carries model, messages and stream
ParametersNormalised ==
    /\ npc \in {"ret", "sent"} =>
        /\ std.stream = req.stream
        /\ std.temperature = req.temperature
        /\ std.top_p = req.top_p
        /\ std.max_tokens = req.max_tokens
    /\ npc = "sent" =>
        /\ payload.model = std.model
        /\ payload.messages = std.messages
        /\ payload.stream = std.stream

(***************************************************************************)
(* The request flow.                                                       *)
(***************************************************************************)
Occurrences(log, x) == Cardinality({i \in 1..Len(log) : log[i] = x})
TransportCalls(h) == Occurrences(handlers[h].log, "chat_completions")
HasResolved(h) == Occurrences(handlers[h].log, "get_adapter") > 0
ResolutionFailed(h) == HasResolved(h) /\ handlers[h].adapter = 0
Answered(h) == handlers[h].pc = "done"

\* C12: with an override configured, the canonical model of every request
\* of the Anthropic endpoint is the override, whatever model it named, and
\* get_adapter is called with that name; with none configured the
\* canonical model is the inbound model.  No step changes the override.
C12_CanonicalModel ==
    \A h \in Handlers :
        LET hr == handlers[h]
            canonical == IF envOverride # "" THEN envOverride ELSE hr.model
        IN  hr.endpoint = "anthropic" =>
              /\ hr.pc \notin {"idle", "transform"} => hr.std_model = canonical
              /\ HasResolved(h) => hr.resolved = canonical

C12_OverrideReadOnly == envOverride' = envOverride

C12_Override == []C12_CanonicalModel /\ [][C12_OverrideReadOnly]_vars

\* a request that named an unconfigured model has been served by the
\* override model
C12_Witness ==
    \E h \in Handlers :
        /\ handlers[h].endpoint = "anthropic"
        /\ handlers[h].model = "ghost"
        /\ envOverride = "override-model"
        /\ handlers[h].resolved = "override-model"
        /\ handlers[h].status = 200

\* C14: in every request flow get_adapter is called before
\* chat_completions; a resolution that fails ends the request with an
\* error and no call of the transport, and a model without configuration
\* entry fails with get_adapter's ValueError.
C14_ResolveBeforeTransport ==
    \A h \in Handlers :
        LET hr == handlers[h] IN
        /\ hr.log \in {<<>>, <<"get_adapter">>, <<"get_adapter", "chat_completions">>}
        /\ ResolutionFailed(h) =>
              Answered(h) /\ hr.status >= 400 /\ TransportCalls(h) = 0
        /\ (HasResolved(h) /\ hr.resolved \notin DOMAIN MODEL_CONFIGS) =>
              ResolutionFailed(h) /\ hr.exc = "ValueError"
        /\ TransportCalls(h) > 0 => hr.adapter # 0

\* both endpoints have refused an unconfigured model without a call
C14_Witness ==
    \E g, h \in Handlers :
        /\ handlers[g].endpoint = "chat" /\ handlers[h].endpoint = "anthropic"
        /\ handlers[g].resolved = "ghost" /\ handlers[h].resolved = "ghost"
        /\ Answered(g) /\ Answered(h)
        /\ TransportCalls(g) = 0 /\ TransportCalls(h) = 0

\* C16: handlers that resolve the same model name, in whatever order their
\* steps interleave, hold one and the same handle, and the cache keeps one
\* entry per name, each for a handle that was constructed.
C16_OneHandlePerName ==
    /\ \A g, h \in Handlers :
          (handlers[g].adapter # 0 /\ handlers[h].adapter # 0
           /\ handlers[g].resolved = handlers[h].resolved)
              => handlers[g].adapter = handlers[h].adapter
    /\ \A i, j \in 1..Len(cache) : cache[i].key = cache[j].key => i = j
    /\ \A i \in 1..Len(cache) : cache[i].handle \in 1..constructed
    /\ Len(cache) = constructed

\* two requests for the same model are in flight together
C16_Witness ==
    \E g, h \in Handlers :
        /\ g # h
        /\ handlers[g].pc = "await" /\ handlers[h].pc = "await"
        /\ handlers[g].resolved = handlers[h].resolved
        /\ handlers[g].adapter = handlers[h].adapter

\* C17: a request for a model without configuration entry, or with an
\* entry whose adapter is not registered, is answered with a 4xx status on
\* both endpoints.
IsMisconfigured(name) ==
    \/ name \notin DOMAIN MODEL_CONFIGS
    \/ MODEL_CONFIGS[name].adapter \notin ADAPTER_CLASS_MAP
C17_ConfigErrorsAre4xx ==
    \A h \in Handlers :
        (Answered(h) /\ ResolutionFailed(h) /\ IsMisconfigured(handlers[h].resolved))
            => handlers[h].status \in 400..499

\* C18: the text of a non-streaming envelope is the content of the first
\* completion of the backend's payload, and its stop_reason is "end_turn".
IsEnvelope(h) ==
    /\ handlers[h].endpoint = "anthropic"
    /\ ~handlers[h].stream
    /\ Answered(h)
    /\ handlers[h].status = 200
HasCompletion(p) == p.isDict /\ p.hasChoices /\ p.choices # <<>>
C18_FirstCompletionText ==
    \A h \in Handlers :
        IsEnvelope(h) =>
            LET p == handlers[h].upstream IN
            /\ handlers[h].stop_reason = "end_turn"
            /\ (HasCompletion(p) /\ p.choices[1].hasMessage /\ p.choices[1].hasContent)
                  => handlers[h].text = p.choices[1].content

C18_Witness ==
    \E h \in Handlers :
        /\ IsEnvelope(h)
        /\ Len(handlers[h].upstream.choices) = 2
        /\ handlers[h].text = "Hello."

\* C19: a backend payload without `choices`, or with an empty `choices`
\* list, never gives a success envelope.
C19_NoEnvelopeWithoutChoices ==
    \A h \in Handlers :
        (/\ handlers[h].endpoint = "anthropic"
         /\ ~handlers[h].stream
         /\ Answered(h)
         /\ handlers[h].upstream.isDict
         /\ ~HasCompletion(handlers[h].upstream))
            => handlers[h].status # 200

\* what does hold: an empty `choices` list is refused, and a completion
\* without message or content gives the empty text
EmptyChoicesRefused ==
    \A h \in Handlers :
        (/\ handlers[h].endpoint = "anthropic" /\ ~handlers[h].stream /\ Answered(h)
         /\ handlers[h].upstream.isDict /\ handlers[h].upstream.hasChoices
         /\ handlers[h].upstream.choices = <<>>)
            => handlers[h].status = 500

(***************************************************************************)
(* The adapter cache.                                                      *)
(***************************************************************************)
\* every name resolved has been given one handle only (as many pairs as
\* names), and one adapter has been constructed for each
OneHandlePerResolvedName ==
    /\ Cardinality(returned) = Cardinality(ResolvedNames)
    /\ constructed = Cardinality(ResolvedNames)

\* C15, as stated: once get_adapter(m) has succeeded, every later
\* get_adapter(m), after any resolutions of other names, returns the same
\* handle and constructs no adapter.
C15_MemoizedForLife == OneHandlePerResolvedName

\* C15, amended: the same, as long as no more than CacheMaxSize different
\* model names have been resolved.
C15_MemoizedWhileCached ==
    Cardinality(ResolvedNames) <= CacheMaxSize => OneHandlePerResolvedName

\* the first model is resolved again, from the cache, the cache being full
C15_Witness ==
    /\ Cardinality(ResolvedNames) = CacheMaxSize
    /\ Len(cache) = CacheMaxSize
    /\ lastCall = [key |-> "1", handle |-> 1, hit |-> TRUE]

(***************************************************************************)
(* Release of the upstream response.                                       *)
(***************************************************************************)
\* the streaming response is over and nothing of it is left to run
ResponseOver ==
    \/ tpc \in {"done", "cancelled", "closed"}
    \/ tpc = "aborted" /\ collected

\* C20: when a streaming response is over (the stream completed, the client
\* disconnected, or the upstream failed), response.aclose() has run.
C20_UpstreamReleased == ResponseOver => respClosed

\* what does hold: a response whose adapter generator was started is closed
StartedGeneratorReleased == (ResponseOver /\ agen # "created") => respClosed

(***************************************************************************)
(* Backpressure.                                                           *)
(***************************************************************************)
\* C21: an upstream chunk is pulled only while a pull of the consumer is
\* pending, one chunk at a time, and the event made from it answers that
\* pull, so that the next chunk waits for the consumer's next pull; once
\* the consumer is gone no chunk is pulled.
C21_PullStep ==
    pos' # pos =>
        /\ demand
        /\ client = "connected"
        /\ pos' = pos + 1
        /\ events' # events => (~demand' /\ Len(events') = Len(events) + 1)
C21_NoPullWithoutConsumer ==
    (~demand \/ client = "gone") => (pos' = pos /\ events' = events)
C21_IncrementalPull == [][C21_PullStep /\ C21_NoPullWithoutConsumer]_vars

\* the consumer went away after two chunks, and the third, which the
\* backend had sent, was never pulled
C21_Witness ==
    /\ client = "gone"
    /\ collected
    /\ pos = 2
    /\ Len(events) = 3
    /\ Len(upstream) = 3

(***************************************************************************)
(* The usage of the non-streaming envelope.                                *)
(***************************************************************************)
HasEnvelope == envPc = "ret" /\ envOut.exc = "none"
UsageComplete(u) == u.kind = "object" /\ u.hasPrompt /\ u.hasCompletion

\* C22: the usage counters of the envelope are those of the backend's
\* payload, they are zero when the payload has no usage, and no envelope
\* has a missing or null counter.
C22_UsageCounters ==
    HasEnvelope =>
        /\ envIn.usage.kind = "object" => envOut.usage = envIn.usage
        /\ envIn.usage.kind = "absent" =>
              envOut.usage.prompt_tokens = 0 /\ envOut.usage.completion_tokens = 0
        /\ UsageComplete(envOut.usage)

\* what does hold: a complete usage is passed through, an absent one is
\* given zero counters
CompleteUsagePassedThrough ==
    HasEnvelope =>
        /\ UsageComplete(envIn.usage) => envOut.usage = envIn.usage
        /\ envIn.usage.kind = "absent" =>
              /\ UsageComplete(envOut.usage)
              /\ envOut.usage.prompt_tokens = 0 /\ envOut.usage.completion_tokens = 0

(***************************************************************************)
(* Concurrent streams.                                                     *)
(***************************************************************************)
\* the events a translator running alone has emitted once it has consumed
\* the chunks cs: those of each chunk in turn, up to a chunk that aborts it
RECURSIVE ChunkEvents(_)
ChunkEvents(cs) ==
    IF cs = <<>> THEN <<>>
    ELSE LET r == ProcessChunk(Head(cs)) IN
         IF r.outcome = "raise" THEN <<>>
         ELSE (IF r.outcome = "yield" THEN <<r.ev>> ELSE <<>>) \o ChunkEvents(Tail(cs))
AloneEvents(st) ==
    IF st.tpc = "not_started" THEN <<>>
    ELSE <<MessageStart>>
         \o ChunkEvents(SubSeq(st.upstream, 1, st.pos))
         \o (IF st.tpc \in {"stop_yielded", "done"} THEN <<MessageStop>> ELSE <<>>)

\* AloneEvents is what the single response of Spec emits
AloneIsSpec ==
    events = AloneEvents([upstream |-> upstream, pos |-> pos, tpc |-> tpc])

\* C23: under every interleaving, the events of each of two concurrent
\* streams are those it emits running alone on its own upstream chunks,
\* and a step of one stream changes nothing of the other.
C23_OwnChunksOnly ==
    \A i \in Responses : streams[i].events = AloneEvents(streams[i])
C23_OtherUntouched ==
    \A i, j \in Responses :
        (i # j /\ streams'[i] # streams[i]) => streams'[j] = streams[j]
C23_NoSharedState == []C23_OwnChunksOnly /\ [][C23_OtherUntouched]_vars

\* both streams are under way, each with the text of its own chunks
C23_Witness ==
    /\ streams[1].tpc = "streaming" /\ streams[2].tpc = "streaming"
    /\ streams[1].events = <<MessageStart, ContentBlockDelta("He")>>
    /\ streams[2].events = <<MessageStart, ContentBlockDelta("llo"), ContentBlockDelta("He")>>
    /\ Len(streams[1].upstream) = 2

(***************************************************************************)
(* The adapter's HTTP client.                                              *)
(***************************************************************************)
\* the chunk stream chat_completions returned is still to be consumed
ChunkStreamLive == apc = "returned" /\ agen # "finished"

\* C24: as long as the returned chunk stream is being consumed the HTTP
\* client that opened the response is open; it is closed only once the
\* stream is exhausted or released.
C24_ClientOutlivesStream == ChunkStreamLive => httpClient = "open"

\* what does hold: the client is closed when chat_completions is left
ClientClosedOnReturn == apc \in {"returned", "failed"} => httpClient = "closed"

(***************************************************************************)
(* The bedrock proxy endpoint.                                             *)
(***************************************************************************)
ParseFailed(h) ==
    /\ handlers[h].endpoint = "bedrock"
    /\ handlers[h].body \in Unparsable
    /\ Answered(h)

\* C25: a request of the bedrock endpoint whose body cannot be parsed is
\* answered with status 400, and neither get_adapter nor the transport is
\* called for it.
C25_UnparsableIs400 ==
    \A h \in Handlers :
        ParseFailed(h) => handlers[h].status = 400 /\ handlers[h].log = <<>>

\* what does hold: the request ends before any resolution or call
UnparsableEndsEarly ==
    \A h \in Handlers :
        ParseFailed(h) => handlers[h].status = 500 /\ handlers[h].log = <<>>

====
